---- MODULE Spec2Model ----
(***************************************************************************)
(* A model of the log-analyzer core:                                       *)
(*   - FilterSpanProcessor (log_analyzer/observability/__init__.py), the   *)
(*     span processor that wraps a next processor and drops "http send"    *)
(*     spans at on_end;                                                    *)
(*   - the prompt registry (log_analyzer/registry.py): load_prompt_file,   *)
(*     load_prompt_registry, render_prompt and the two hash helpers.       *)
(*                                                                         *)
(* Python strings whose characters matter (span names, template bodies,    *)
(* values, rendered content) are sequences of one-character strings.       *)
(* Python dicts are sequences of <<key, value>> pairs with distinct keys,  *)
(* in insertion order.                                                     *)
(***************************************************************************)
EXTENDS Integers, Sequences, FiniteSets, TLC

VARIABLES
    \* ---- span filter ----
    spans,          \* span id -> [status, name, ctx]: the SDK's spans
    filterNext,     \* FilterSpanProcessor.next_processor
    nextOnStart,    \* span id -> the on_start calls the next processor received
    nextOnEnd,      \* span id -> the spans the next processor received through on_end
                    \* while the filter handled on_end of that span
    filterOnEnd,    \* span id -> how the filter's on_end for that span finished
    lifecycle,      \* the last shutdown() and the last force_flush() made on the filter,
                    \* each with the calls the next processor received from it
                    \* (a sequence of at most one record each)
    \* ---- prompt registry ----
    disk,           \* the prompts directory: [readable, files: stem -> raw file]
    request,        \* the render request under study: [prompt_id, variables]
    registry,       \* the value load_prompt_registry returned (a dict), or NotLoaded
    loadOutcome,    \* how the last load_prompt_registry call finished
    loads,          \* number of load_prompt_registry calls so far
    renders,        \* the render_prompt calls so far, oldest first: what each returned
                    \* or raised, and list(registry.keys()) at the call
    lastLog,        \* extra_fields of the last error the registry logged, or None
    listings,       \* what the last list_prompt_metadata call returned
                    \* (a sequence of at most one list)
    \* ---- the service process ----
    calls,          \* render_prompt calls in progress on concurrent threads:
                    \* call id -> [pc, arguments, locals, result]
    service,        \* the FastAPI application: [phase, deps, served, stream]
    callOrder       \* the span-processor calls in the order they were made:
                    \* [given: spans passed to the filter's on_end,
                    \*  started, ended: spans the next processor received through
                    \*  on_start and on_end]; kept only where call order is studied

filterVars == <<spans, filterNext, nextOnStart, nextOnEnd, filterOnEnd, lifecycle>>
registryVars == <<disk, request, registry, loadOutcome, loads, renders, lastLog>>
serviceVars == <<listings, calls, service, callOrder>>
vars == <<spans, filterNext, nextOnStart, nextOnEnd, filterOnEnd, lifecycle,
          disk, request, registry, loadOutcome, loads, renders, lastLog,
          listings, calls, service, callOrder>>

\* Python's None, where the other values are strings written as words.
None == "None"

\* The application before its lifespan function ran: no dependency probed,
\* no request handled, no response being streamed.
NotStarted == [phase |-> "starting", deps |-> <<>>, served |-> <<>>, stream |-> <<>>]

\* No span-processor call recorded.
NoOrder == [given |-> <<>>, started |-> <<>>, ended |-> <<>>]

\* A Python value that is either a str (its characters) or None.
PyStr(chars) == [type |-> "str", chars |-> chars]
PyNone == [type |-> "NoneType", chars |-> <<>>]

(***************************************************************************)
(* Strings                                                                 *)
(***************************************************************************)
UpperCase == <<"A","B","C","D","E","F","G","H","I","J","K","L","M",
               "N","O","P","Q","R","S","T","U","V","W","X","Y","Z">>
LowerCase == <<"a","b","c","d","e","f","g","h","i","j","k","l","m",
               "n","o","p","q","r","s","t","u","v","w","x","y","z">>

\* str.lower() on one character.
LowerChar(c) ==
    IF \E i \in 1..Len(UpperCase) : UpperCase[i] = c
    THEN LowerCase[CHOOSE i \in 1..Len(UpperCase) : UpperCase[i] = c]
    ELSE c

\* str.lower()
Lower(s) == [i \in 1..Len(s) |-> LowerChar(s[i])]

\* Python's `sub in s` for strings.
Contains(s, sub) ==
    \E i \in 0..(Len(s) - Len(sub)) :
        \A j \in 1..Len(sub) : s[i + j] = sub[j]

(***************************************************************************)
(* Span filter                                                             *)
(***************************************************************************)
\* Bound of the span-filter model: the spans the SDK creates.
NumSpans == 2

SpanIds == 1..NumSpans

\* The literal of the `in` test in on_end.
NoiseMarker == <<"h","t","t","p"," ","s","e","n","d">>

\* Span names the instrumentation produces, plus an absent name (None).
SpanNames ==
    { PyStr(<<"h","t","t","p"," ","s","e","n","d">>),
      PyStr(<<"G","E","T"," ","/","s"," ","H","T","T","P"," ","S","e","n","d">>),
      PyStr(<<"q","u","e","r","y","_","l","o","k","i">>),
      PyStr(<<>>),
      PyStr(<<"h","t","t","p",".","s","e","n","d">>),
      PyStr(<<"G","E","T"," ","/","h","e","a","l","t","h">>),
      PyNone }

\* parent_context values: absent (the default) or a context object.
Contexts == {None, "ctx"}

\* timeout_millis arguments; omitting it gives the default.
DefaultTimeoutMillis == 30000
Timeouts == {0, DefaultTimeoutMillis}

\* The processor the filter was constructed around.
BatchProcessor == "batch_processor"

NoSpan == [status |-> "unborn", name |-> PyNone, ctx |-> None]

\* No lifecycle call made yet.
NoLifecycle == [shutdown |-> <<>>, flush |-> <<>>]

\* FilterSpanProcessor.__init__ and the state of the SDK before any span; the
\* prompt registry is not in use.
FilterInit ==
    /\ spans = [s \in SpanIds |-> NoSpan]
    /\ filterNext = BatchProcessor
    /\ nextOnStart = [s \in SpanIds |-> <<>>]
    /\ nextOnEnd = [s \in SpanIds |-> <<>>]
    /\ filterOnEnd = [s \in SpanIds |-> "none"]
    /\ lifecycle = NoLifecycle
    /\ disk = <<>>
    /\ request = <<>>
    /\ registry = <<>>
    /\ loadOutcome = <<>>
    /\ loads = 0
    /\ renders = <<>>
    /\ lastLog = <<>>
    /\ listings = <<>>
    /\ calls = <<>>
    /\ callOrder = NoOrder
    /\ service = NotStarted

\* A bug on_start could have: the noise test is taken at start already.
OnStartForward_FilterAtStart(s, name, ctx) ==
    IF name.type = "str" /\ Contains(Lower(name.chars), <<"h","t","t","p"," ","s","e","n","d">>)
    THEN <<>>
    ELSE <<[span |-> s, ctx |-> ctx]>>

\* The calls on_start makes on the next processor, for span s with that name.
OnStartForward(s, name, ctx) == <<[span |-> s, ctx |-> ctx]>>

\* on_start(span, parent_context) on the SDK's and the processors' state: the
\* SDK starts span s and calls the filter.
OnStartCall(s, name, ctx) ==
    /\ spans[s].status = "unborn"
    /\ spans' = [spans EXCEPT ![s] = [status |-> "started", name |-> name, ctx |-> ctx]]
    /\ nextOnStart' = [nextOnStart EXCEPT ![s] = @ \o OnStartForward(s, name, ctx)]
    /\ UNCHANGED <<filterNext, nextOnEnd, filterOnEnd, lifecycle>>
    /\ UNCHANGED registryVars
    /\ UNCHANGED <<listings, calls, service>>

\* on_start(span, parent_context), the order of calls not being recorded.
OnStart(s, name, ctx) ==
    /\ OnStartCall(s, name, ctx)
    /\ UNCHANGED callOrder

\* A bug on_end could have: the name is not lowercased before the test.
OnEndOutcome_CaseSensitive(name) ==
    IF name.type # "str" THEN "raised"
    ELSE IF Contains(name.chars, <<"h","t","t","p"," ","s","e","n","d">>) THEN "dropped"
    ELSE "forwarded"

\* The outcome of on_end for a span name: "raised" (span_name.lower() on a
\* name that is no string), "dropped" (the early return) or "forwarded".
OnEndOutcome(name) ==
    IF name.type # "str" THEN "raised"
    ELSE IF Contains(Lower(name.chars), NoiseMarker) THEN "dropped"
    ELSE "forwarded"

\* The spans on_end hands to the next processor, given the outcome.
OnEndForward(s, outcome) == IF outcome = "forwarded" THEN <<s>> ELSE <<>>

\* A bug on_end could have: the lowercased name is stored back into the span.
SpanAfterOnEnd_NameLowered(span) ==
    IF span.name.type = "str"
    THEN [span EXCEPT !.name = PyStr(Lower(span.name.chars))]
    ELSE span

\* The span as on_end leaves it: on_end reads span.name into a local and
\* assigns to nothing of the span.
SpanAfterOnEnd(span) == span

\* on_end(span) on the SDK's and the processors' state: the SDK ends span s
\* and calls the filter.
OnEndCall(s) ==
    /\ spans[s].status = "started"
    /\ spans' = [spans EXCEPT ![s] = [SpanAfterOnEnd(@) EXCEPT !.status = "ended"]]
    /\ filterOnEnd' = [filterOnEnd EXCEPT ![s] = OnEndOutcome(spans[s].name)]
    /\ nextOnEnd' = [nextOnEnd EXCEPT ![s] = @ \o OnEndForward(s, OnEndOutcome(spans[s].name))]
    /\ UNCHANGED <<filterNext, nextOnStart, lifecycle>>
    /\ UNCHANGED registryVars
    /\ UNCHANGED <<listings, calls, service>>

\* on_end(span), the order of calls not being recorded.
OnEnd(s) ==
    /\ OnEndCall(s)
    /\ UNCHANGED callOrder

\* The calls shutdown() makes on the next processor.
ShutdownForward == <<[op |-> "shutdown"]>>

\* shutdown()
Shutdown ==
    /\ lifecycle' = [lifecycle EXCEPT !.shutdown = <<[nextCalls |-> ShutdownForward]>>]
    /\ UNCHANGED <<spans, filterNext, nextOnStart, nextOnEnd, filterOnEnd>>
    /\ UNCHANGED registryVars
    /\ UNCHANGED serviceVars

\* The calls force_flush(timeout_millis) makes on the next processor.
FlushForward(timeout) == <<[op |-> "force_flush", timeout_millis |-> timeout]>>

\* A bug force_flush could have: the next processor's answer is dropped.
FlushReturn_AlwaysTrue(nextRet) == TRUE

\* What force_flush returns, given what the next processor returned.
FlushReturn(nextRet) == nextRet

\* force_flush(timeout_millis); nextRet is what the next processor answers.
ForceFlush(timeout, nextRet) ==
    /\ lifecycle' = [lifecycle EXCEPT
            !.flush = <<[timeout_millis |-> timeout,
                         nextCalls |-> FlushForward(timeout),
                         nextRet |-> nextRet,
                         ret |-> FlushReturn(nextRet)]>>]
    /\ UNCHANGED <<spans, filterNext, nextOnStart, nextOnEnd, filterOnEnd>>
    /\ UNCHANGED registryVars
    /\ UNCHANGED serviceVars

FilterNext ==
    \/ \E s \in SpanIds, name \in SpanNames, ctx \in Contexts : OnStart(s, name, ctx)
    \/ \E s \in SpanIds : OnEnd(s)
    \/ Shutdown
    \/ \E timeout \in Timeouts, nextRet \in BOOLEAN : ForceFlush(timeout, nextRet)


(***************************************************************************)
(* Span filter: the order of calls                                         *)
(***************************************************************************)
\* A bug the filter could have: a forwarded span is put ahead of the spans
\* forwarded before it (a filter that stacks spans and hands them on later).
NextReceived_NewestFirst(earlier, forwarded) == forwarded \o earlier

\* The spans the next processor has received once the filter forwards some
\* more: the filter calls self.next_processor synchronously inside its own
\* method, so they come after everything received before.
NextReceived(earlier, forwarded) == earlier \o forwarded

\* The spans of a sequence of on_start calls.
SpansOf(startCalls) == [i \in 1..Len(startCalls) |-> startCalls[i].span]

\* on_start(span, parent_context), the call order recorded. The methods have
\* no await and no lock: a call runs to its end before the next call of the
\* event loop starts.
OnStartOrdered(s, name, ctx) ==
    /\ OnStartCall(s, name, ctx)
    /\ callOrder' = [callOrder EXCEPT
            !.started = NextReceived(@, SpansOf(OnStartForward(s, name, ctx)))]

\* on_end(span), the call order recorded.
OnEndOrdered(s) ==
    /\ OnEndCall(s)
    /\ callOrder' = [callOrder EXCEPT
            !.given = @ \o <<s>>,
            !.ended = NextReceived(@, OnEndForward(s, OnEndOutcome(spans[s].name)))]

\* Spans of concurrent request contexts start and end in any interleaving;
\* parent_context is left at its default.
OrderNext ==
    \/ \E s \in SpanIds, name \in SpanNames : OnStartOrdered(s, name, None)
    \/ \E s \in SpanIds : OnEndOrdered(s)

OrderSpec == FilterInit /\ [][OrderNext]_vars


(***************************************************************************)
(* Span filter: properties                                                 *)
(***************************************************************************)
\* Whether a span name, lowercased, contains "http send".
IsNoiseName(name) ==
    /\ name.type = "str"
    /\ \E i \in 0..(Len(name.chars) - 9) :
          Lower(SubSeq(name.chars, i + 1, i + 9)) = <<"h","t","t","p"," ","s","e","n","d">>

\* C1: for every named span passed to on_end: if its lowercased name contains
\* "http send" the next processor's on_end is not invoked for it; otherwise the
\* next processor's on_end is invoked exactly once, with that same span.
C1_NoiseDroppedOthersForwarded ==
    \A s \in SpanIds :
        (spans[s].status = "ended" /\ spans[s].name.type = "str") =>
            IF IsNoiseName(spans[s].name)
            THEN nextOnEnd[s] = <<>>
            ELSE nextOnEnd[s] = <<s>>

\* C1 witness: a mixed-case noise span was dropped and "query_loki" was forwarded.
C1_Witness ==
    \E s, r \in SpanIds :
        /\ spans[s].status = "ended" /\ spans[r].status = "ended"
        /\ spans[s].name =
             PyStr(<<"G","E","T"," ","/","s"," ","H","T","T","P"," ","S","e","n","d">>)
        /\ nextOnEnd[s] = <<>>
        /\ spans[r].name = PyStr(<<"q","u","e","r","y","_","l","o","k","i">>)
        /\ nextOnEnd[r] = <<r>>

\* C2: whatever spans were forwarded or dropped, every shutdown() and every
\* force_flush(timeout) made exactly one call of the same kind on the next
\* processor; force_flush passed its timeout on unchanged and returned the
\* boolean the next processor returned.
C2_LifecycleAlwaysDelegated ==
    /\ \A i \in 1..Len(lifecycle.shutdown) :
          lifecycle.shutdown[i].nextCalls = <<[op |-> "shutdown"]>>
    /\ \A i \in 1..Len(lifecycle.flush) :
          /\ lifecycle.flush[i].nextCalls =
                <<[op |-> "force_flush", timeout_millis |-> lifecycle.flush[i].timeout_millis]>>
          /\ lifecycle.flush[i].ret = lifecycle.flush[i].nextRet

\* C2 witness: after one span was dropped and one forwarded, a shutdown and a
\* force_flush(0) that the next processor answered with False both went through.
C2_Witness ==
    /\ \E s, r \in SpanIds : filterOnEnd[s] = "dropped" /\ filterOnEnd[r] = "forwarded"
    /\ lifecycle.shutdown = <<[nextCalls |-> <<[op |-> "shutdown"]>>]>>
    /\ Len(lifecycle.flush) = 1
    /\ lifecycle.flush[1].timeout_millis = 0
    /\ lifecycle.flush[1].nextCalls = <<[op |-> "force_flush", timeout_millis |-> 0]>>
    /\ lifecycle.flush[1].nextRet = FALSE
    /\ lifecycle.flush[1].ret = FALSE

\* C3: on_start is forwarded to the next processor for every span, with the
\* same span and parent context, also for spans whose name contains the noise
\* marker and that on_end later drops.
C3_OnStartAlwaysForwarded ==
    \A s \in SpanIds :
        IF spans[s].status = "unborn"
        THEN nextOnStart[s] = <<>>
        ELSE nextOnStart[s] = <<[span |-> s, ctx |-> spans[s].ctx]>>

\* C3 witness: a noise span started with a parent context reached the next
\* processor's on_start and was dropped at on_end.
C3_Witness ==
    \E s \in SpanIds :
        /\ spans[s].name = PyStr(<<"h","t","t","p"," ","s","e","n","d">>)
        /\ spans[s].ctx = "ctx"
        /\ filterOnEnd[s] = "dropped"
        /\ nextOnStart[s] = <<[span |-> s, ctx |-> "ctx"]>>

\* C4: for any span name whatsoever (empty, malformed or absent) on_end ends in
\* exactly one of drop or forward and never fails, and a name that does not
\* match the noise marker is forwarded.
C4_OnEndNeverFails ==
    \A s \in SpanIds :
        spans[s].status = "ended" =>
            /\ filterOnEnd[s] \in {"dropped", "forwarded"}
            /\ ~IsNoiseName(spans[s].name) => (filterOnEnd[s] = "forwarded" /\ nextOnEnd[s] = <<s>>)

(***************************************************************************)
(* Prompt registry: values                                                 *)
(***************************************************************************)
\* Text is a sequence of atoms: one-character strings, and "{{name}}" for a
\* Jinja placeholder (the atom stands for its characters).

\* Variable names, in the order Python's string comparison gives them.
KeyOrder == <<"logs", "namespace", "time_range", "unknown_var">>

Placeholder(name) ==
    CASE name = "logs" -> "{{logs}}"
      [] name = "namespace" -> "{{namespace}}"
      [] name = "time_range" -> "{{time_range}}"
      [] name = "unknown_var" -> "{{unknown_var}}"

IsPlaceholder(atom) == \E i \in 1..Len(KeyOrder) : atom = Placeholder(KeyOrder[i])

PlaceholderName(atom) ==
    KeyOrder[CHOOSE i \in 1..Len(KeyOrder) : atom = Placeholder(KeyOrder[i])]

\* Concatenation of a sequence of texts.
RECURSIVE Flatten(_)
Flatten(ss) == IF ss = <<>> THEN <<>> ELSE Head(ss) \o Flatten(Tail(ss))

\* ---- Python dicts: sequences of <<key, value>> in insertion order ----
Keys(d) == {d[i][1] : i \in 1..Len(d)}

Get(d, k) == d[CHOOSE i \in 1..Len(d) : d[i][1] = k][2]

\* d[k] = v
DictSet(d, k, v) ==
    IF k \in Keys(d)
    THEN [i \in 1..Len(d) |-> IF d[i][1] = k THEN <<k, v>> ELSE d[i]]
    ELSE Append(d, <<k, v>>)

\* {**a, **b}
RECURSIVE DictMerge(_, _)
DictMerge(a, b) ==
    IF b = <<>> THEN a
    ELSE DictMerge(DictSet(a, Head(b)[1], Head(b)[2]), Tail(b))

\* ---- hashing ----
\* hashlib.sha256(...).hexdigest(), taken as collision-free: the digest is
\* represented by the bytes it was computed from.
Sha256(bytes) == [sha256 |-> bytes]

Whitespace == {" ", "\t", "\n", "\r"}

\* str.replace("\r\n", "\n")
RECURSIVE ReplaceCRLF(_)
ReplaceCRLF(s) ==
    IF Len(s) = 0 THEN <<>>
    ELSE IF Len(s) >= 2 /\ s[1] = "\r" /\ s[2] = "\n"
         THEN <<"\n">> \o ReplaceCRLF(SubSeq(s, 3, Len(s)))
         ELSE <<s[1]>> \o ReplaceCRLF(Tail(s))

\* str.strip()
Strip(s) ==
    LET keep == {i \in 1..Len(s) : s[i] \notin Whitespace}
    IN  IF keep = {} THEN <<>>
        ELSE SubSeq(s, CHOOSE i \in keep : \A j \in keep : i <= j,
                       CHOOSE i \in keep : \A j \in keep : i >= j)

sha256_text(content) == Sha256(Strip(ReplaceCRLF(content)))

\* json.dumps of one character of a str.
JsonEscape(c) ==
    CASE c = "\"" -> <<"\\", "\"">>
      [] c = "\\" -> <<"\\", "\\">>
      [] c = "\n" -> <<"\\", "n">>
      [] c = "\r" -> <<"\\", "r">>
      [] c = "\t" -> <<"\\", "t">>
      [] OTHER -> <<c>>

\* json.dumps of a str
JsonString(s) == <<"\"">> \o Flatten([i \in 1..Len(s) |-> JsonEscape(s[i])]) \o <<"\"">>

\* The keys of a dict in the order sort_keys=True writes them.
\* A bug sha256_json could have: sort_keys left out, so that the keys are
\* written in insertion order.
SortedKeys_InsertionOrder(d) == [i \in 1..Len(d) |-> d[i][1]]

SortedKeys(d) == SelectSeq(KeyOrder, LAMBDA k : k \in Keys(d))

\* items joined by "," (separators=(",", ":"))
RECURSIVE JoinComma(_)
JoinComma(items) ==
    IF items = <<>> THEN <<>>
    ELSE IF Len(items) = 1 THEN Head(items)
    ELSE Head(items) \o <<",">> \o JoinComma(Tail(items))

\* A bug sha256_json could have: only the keys of the dict are written.
JsonDict_KeysOnly(d) ==
    LET ks == SortedKeys(d)
    IN  <<"{">> \o JoinComma([i \in 1..Len(ks) |-> JsonString(<<ks[i]>>)]) \o <<"}">>

\* json.dumps(d, sort_keys=True, separators=(",", ":")) of a dict of str
JsonDict(d) ==
    LET ks == SortedKeys(d)
    IN  <<"{">>
        \o JoinComma([i \in 1..Len(ks) |->
                        JsonString(<<ks[i]>>) \o <<":">> \o JsonString(Get(d, ks[i]))])
        \o <<"}">>

\* json.dumps(messages, sort_keys=True, separators=(",", ":")): each message is
\* a dict with the keys "role" and "content", written content first.
JsonMessages(messages) ==
    <<"[">>
    \o JoinComma([i \in 1..Len(messages) |->
            <<"{">> \o JsonString(<<"content">>) \o <<":">> \o JsonString(messages[i].content)
            \o <<",">> \o JsonString(<<"role">>) \o <<":">> \o JsonString(<<messages[i].role>>)
            \o <<"}">>])
    \o <<"]">>

sha256_json_dict(d) == Sha256(JsonDict(d))
sha256_json_messages(messages) == Sha256(JsonMessages(messages))

(***************************************************************************)
(* Prompt registry: Jinja rendering with StrictUndefined                   *)
(***************************************************************************)
\* Names a default jinja2 Environment resolves when the context lacks them
\* (its globals: range, dict, lipsum, cycler, joiner, namespace); of the
\* variable names of this model only "namespace" is one.
JinjaGlobals == {"namespace"}

\* str() of the global a name resolves to.
JinjaGlobalText(name) == <<"<class 'jinja2.utils.Namespace'>">>

\* The lexer turns every newline sequence of the source into "\n" ...
RECURSIVE NormalizeNewlines(_)
NormalizeNewlines(s) ==
    IF Len(s) = 0 THEN <<>>
    ELSE IF Len(s) >= 2 /\ s[1] = "\r" /\ s[2] = "\n"
         THEN <<"\n">> \o NormalizeNewlines(SubSeq(s, 3, Len(s)))
         ELSE <<(IF s[1] = "\r" THEN "\n" ELSE s[1])>> \o NormalizeNewlines(Tail(s))

\* ... and drops one trailing newline (keep_trailing_newline is False).
JinjaSource(body) ==
    LET n == NormalizeNewlines(body)
    IN  IF Len(n) > 0 /\ n[Len(n)] = "\n" THEN SubSeq(n, 1, Len(n) - 1) ELSE n

\* What {{ name }} evaluates to: the context's value, else a global, else
\* StrictUndefined (which raises when printed).
JinjaLookup(name, context) ==
    IF name \in Keys(context) THEN [defined |-> TRUE, text |-> Get(context, name)]
    ELSE IF name \in JinjaGlobals THEN [defined |-> TRUE, text |-> JinjaGlobalText(name)]
    ELSE [defined |-> FALSE, text |-> <<>>]

\* jinja_env.from_string(body).render(context): the text, or the name of the
\* first undefined variable the template prints.
JinjaRender(body, context) ==
    LET src == JinjaSource(body)
        bad == {i \in 1..Len(src) :
                    IsPlaceholder(src[i]) /\ ~JinjaLookup(PlaceholderName(src[i]), context).defined}
    IN  IF bad # {}
        THEN [ok |-> FALSE,
              undefined |-> PlaceholderName(src[CHOOSE i \in bad : \A j \in bad : i <= j]),
              text |-> <<>>]
        ELSE [ok |-> TRUE,
              undefined |-> None,
              text |-> Flatten([i \in 1..Len(src) |->
                          IF IsPlaceholder(src[i])
                          THEN JinjaLookup(PlaceholderName(src[i]), context).text
                          ELSE <<src[i]>>])]

(***************************************************************************)
(* Prompt registry: the prompts directory                                  *)
(***************************************************************************)
\* Filename stems of the *.yaml files a directory may hold.
Stems == {"k8s_log_analysis_v1", "foo"}

\* Values of variables.
ValX == <<"x">>
ValProd == <<"p","r","o","d">>
ValUnknown == <<"u","n","k","n","o","w","n">>

ModelDefaults == [temperature |-> "0.3", max_tokens |-> "200"]

\* What yaml.safe_load gives for a well-formed definition file.
RawFile(id, system, user, required, optional) ==
    [yaml_ok |-> TRUE, absent |-> {}, id |-> id, description |-> "analyze logs",
     system |-> system, user |-> user,
     required |-> required, optional |-> optional, model_defaults |-> ModelDefaults]

\* The bodies and inputs of the definitions a file may declare.
\*  1: the shipped shape: required logs, optional namespace with a default
\*  2: both halves print variables no input declares
\*  3: the user half prints "namespace", which nothing declares
\*  4: only the user half prints an undeclared variable
\* and, for the directories of a service that loaded its registry,
\*  5, 6: two optional inputs, their defaults written in either order
\*  7: no declared input; the user half prints "logs"
TemplateKinds == 1..4

RawOfKind(kind, id) ==
    CASE kind = 1 -> RawFile(id, <<"S", "\n">>, <<"{{logs}}", " ", "{{namespace}}">>,
                             <<"logs">>, << <<"namespace", ValUnknown>> >>)
      [] kind = 2 -> RawFile(id, <<"{{unknown_var}}">>, <<"{{time_range}}">>,
                             <<"logs">>, <<>>)
      [] kind = 3 -> RawFile(id, <<"S">>, <<"n", "s", "=", "{{namespace}}">>, <<>>, <<>>)
      [] kind = 4 -> RawFile(id, <<"S">>, <<"{{unknown_var}}">>, <<>>, <<>>)
      [] kind = 5 -> RawFile(id, <<"S">>,
                             <<"{{logs}}", " ", "{{namespace}}", " ", "{{time_range}}">>,
                             <<"logs">>,
                             << <<"namespace", ValUnknown>>, <<"time_range", ValX>> >>)
      [] kind = 6 -> RawFile(id, <<"S">>,
                             <<"{{logs}}", " ", "{{namespace}}", " ", "{{time_range}}">>,
                             <<"logs">>,
                             << <<"time_range", ValX>>, <<"namespace", ValUnknown>> >>)
      [] kind = 7 -> RawFile(id, <<"S">>, <<"{{logs}}">>, <<>>, <<>>)

\* A file yaml.safe_load rejects, and a file that lacks its "user" field.
UnparsableFile == [RawOfKind(1, "foo") EXCEPT !.yaml_ok = FALSE]
FileWithoutUser(id) == [RawOfKind(1, id) EXCEPT !.absent = {"user"}]

\* The contents a file with a given stem may have: any kind, declaring its own
\* stem or another one as id; unparsable; or lacking a field.
RawFiles ==
    {RawOfKind(k, id) : k \in TemplateKinds, id \in Stems}
    \cup {UnparsableFile} \cup {FileWithoutUser(id) : id \in Stems}

\* The prompts directories: an existing directory holding any subset of the
\* stems, or a directory that is missing or cannot be read.
Disks ==
    {[readable |-> TRUE, files |-> f] :
        f \in UNION {[S -> RawFiles] : S \in SUBSET Stems}}
    \cup {[readable |-> FALSE, files |-> <<>>]}

(***************************************************************************)
(* Prompt registry: loading                                                *)
(***************************************************************************)
\* Bounds of the registry model: calls of load_prompt_registry / render_prompt.
MaxLoads == 2
MaxRenders == 2

NoTemplate == <<>>

\* The fields load_prompt_file reads, in the order it reads them after the id.
FieldsRead == <<"system", "user", "model_defaults", "description", "inputs">>

\* A bug load_prompt_file could have: the id is not compared with the stem.
IdMismatch_Unchecked(raw, stem) == FALSE

\* raw["id"] != path.stem
IdMismatch(raw, stem) == raw.id # stem

\* PromptTemplate(id=raw["id"], ..., template_hash=sha256_text(system + user), ...)
BuildTemplate(raw) ==
    [id |-> raw.id,
     description |-> raw.description,
     template_hash |-> sha256_text(raw.system \o raw.user),
     system_template |-> raw.system,
     user_template |-> raw.user,
     required_inputs |-> raw.required,
     optional_inputs |-> raw.optional,
     llm_config |-> raw.model_defaults]

\* A bug load_prompt_file could have: an id that differs from the stem is
\* logged and the definition is returned all the same.
load_prompt_file_WarnOnly(stem, raw) ==
    IF ~raw.yaml_ok THEN [ok |-> FALSE, error |-> "YAMLError", template |-> NoTemplate]
    ELSE IF raw.absent # {} THEN [ok |-> FALSE, error |-> "KeyError", template |-> NoTemplate]
    ELSE [ok |-> TRUE, error |-> None, template |-> BuildTemplate(raw)]

\* load_prompt_file(path): the PromptTemplate, or the exception it raises.
load_prompt_file(stem, raw) ==
    IF ~raw.yaml_ok THEN [ok |-> FALSE, error |-> "YAMLError", template |-> NoTemplate]
    ELSE IF "id" \in raw.absent THEN [ok |-> FALSE, error |-> "KeyError", template |-> NoTemplate]
    ELSE IF IdMismatch(raw, stem)
         THEN [ok |-> FALSE, error |-> "ValueError: ID mismatch", template |-> NoTemplate]
    ELSE IF \E i \in 1..Len(FieldsRead) : FieldsRead[i] \in raw.absent
         THEN [ok |-> FALSE, error |-> "KeyError", template |-> NoTemplate]
    ELSE [ok |-> TRUE, error |-> None, template |-> BuildTemplate(raw)]

\* prompts_dir.glob("*.yaml"): the stems found; nothing when the directory is
\* missing or cannot be read (pathlib raises no error for either).
Glob(d) == IF d.readable THEN DOMAIN d.files ELSE {}

\* The orders in which glob may yield a set of files.
Orders(S) ==
    {o \in [1..Cardinality(S) -> S] : \A i, j \in 1..Cardinality(S) : o[i] = o[j] => i = j}

\* The loop of load_prompt_registry over the files in the order glob yields
\* them, from the registry built so far: the first failing file ends the call,
\* and the dict built so far is a local of the frame the exception unwinds.
RECURSIVE LoadLoop(_, _, _)
LoadLoop(d, order, reg) ==
    IF order = <<>> THEN [ok |-> TRUE, error |-> None, file |-> None, registry |-> reg]
    ELSE LET loaded == load_prompt_file(Head(order), d.files[Head(order)])
         IN  IF ~loaded.ok
             THEN [ok |-> FALSE, error |-> loaded.error, file |-> Head(order), registry |-> reg]
             ELSE LoadLoop(d, Tail(order), DictSet(reg, loaded.template.id, loaded.template))

\* load_prompt_registry(prompts_dir)
load_prompt_registry(d, order) == LoadLoop(d, order, <<>>)

NotLoaded == [loaded |-> FALSE, dict |-> <<>>]

\* A bug the load could have: the dict under construction is what the caller
\* holds (a module-level registry filled in place), so that a failing load
\* leaves the definitions read before the failure.
RegistryAfterLoad_KeepPartial(r, held) == [loaded |-> TRUE, dict |-> r.registry]

\* What the caller's variable holds after registry = load_prompt_registry(...):
\* the dict returned, or on an exception what it held before.
RegistryAfterLoad(r, held) ==
    IF r.ok THEN [loaded |-> TRUE, dict |-> r.registry] ELSE held

\* registry = load_prompt_registry(prompts_dir): on an exception the caller's
\* variable keeps what it held.
LoadRegistry ==
    /\ loads < MaxLoads
    /\ \E order \in Orders(Glob(disk)) :
         LET r == load_prompt_registry(disk, order)
         IN  /\ loadOutcome' = [ok |-> r.ok, error |-> r.error, file |-> r.file]
             /\ registry' = RegistryAfterLoad(r, registry)
             /\ lastLog' = IF r.error = "ValueError: ID mismatch"
                           THEN [message |-> "Prompt ID mismatch",
                                 fields |-> [file |-> r.file, expected_id |-> r.file,
                                             actual_id |-> disk.files[r.file].id]]
                           ELSE lastLog
    /\ loads' = loads + 1
    /\ UNCHANGED <<disk, request, renders>>
    /\ UNCHANGED filterVars
    /\ UNCHANGED serviceVars

(***************************************************************************)
(* Prompt registry: rendering                                              *)
(***************************************************************************)
NoValue == <<>>
NoError == [type |-> None, text |-> None, names |-> {}]

RenderFails(type, text, names) ==
    [ok |-> FALSE, error |-> [type |-> type, text |-> text, names |-> names], value |-> NoValue]

\* A bug render_prompt could have: the defaults override the caller's values.
MergeVariables_DefaultsWin(optional_inputs, variables) == DictMerge(variables, optional_inputs)

\* merged_vars = {**template.optional_inputs, **variables}
MergeVariables(optional_inputs, variables) == DictMerge(optional_inputs, variables)

\* A bug render_prompt could have: the messages are built user first.
BuildMessages_UserFirst(rendered_system, rendered_user) ==
    << [role |-> "user", content |-> rendered_user],
       [role |-> "system", content |-> rendered_system] >>

\* messages = [{"role": "system", ...}, {"role": "user", ...}]
BuildMessages(rendered_system, rendered_user) ==
    << [role |-> "system", content |-> rendered_system],
       [role |-> "user", content |-> rendered_user] >>

\* prompt_id in registry
PromptKnown(reg, prompt_id) == prompt_id \in Keys(reg)

\* registry[prompt_id]
LookUp(reg, prompt_id) == Get(reg, prompt_id)

\* A bug render_prompt could have: the required inputs are not checked.
MissingInputs_Unchecked(template, variables) == {}

\* missing = set(template.required_inputs) - variables.keys()
MissingInputs(template, variables) ==
    {template.required_inputs[i] : i \in 1..Len(template.required_inputs)} \ Keys(variables)

\* A bug render_prompt could have: the keyword arguments of the two hashes of
\* RenderedPrompt are crossed.
RenderedPrompt_HashesCrossed(template, messages, merged_vars) ==
    [id |-> template.id,
     template_hash |-> sha256_json_messages(messages),
     rendered_hash |-> template.template_hash,
     variables_hash |-> sha256_json_dict(merged_vars),
     messages |-> messages,
     llm_config |-> template.llm_config]

\* variables_hash = sha256_json(merged_vars); rendered_hash = sha256_json(messages);
\* return RenderedPrompt(id=template.id, template_hash=template.template_hash, ...)
RenderedPrompt(template, messages, merged_vars) ==
    [id |-> template.id,
     template_hash |-> template.template_hash,
     rendered_hash |-> sha256_json_messages(messages),
     variables_hash |-> sha256_json_dict(merged_vars),
     messages |-> messages,
     llm_config |-> template.llm_config]

\* A bug render_prompt could have: the user half is rendered before the
\* system half.
FirstUndefined_UserHalfFirst(rendered_system, rendered_user) ==
    IF ~rendered_user.ok THEN rendered_user.undefined ELSE rendered_system.undefined

\* The name in the UndefinedError Jinja raises when a half prints an undefined
\* variable: the system half is rendered first, so its error is the one
\* raised when both halves fail.
FirstUndefined(rendered_system, rendered_user) ==
    IF ~rendered_system.ok THEN rendered_system.undefined ELSE rendered_user.undefined

\* render_prompt from the template on (the checks and the rendering that
\* follow the lookup): the RenderedPrompt returned or the exception raised.
RenderTemplate(template, variables) ==
    LET missing == MissingInputs(template, variables)
        merged_vars == MergeVariables(template.optional_inputs, variables)
        rendered_system == JinjaRender(template.system_template, merged_vars)
        rendered_user == JinjaRender(template.user_template, merged_vars)
        messages == BuildMessages(rendered_system.text, rendered_user.text)
    IN  IF missing # {}
        THEN RenderFails("ValueError", "Missing required inputs: {missing}", missing)
        ELSE IF ~rendered_system.ok \/ ~rendered_user.ok
        THEN RenderFails("UndefinedError", "'{name}' is undefined",
                         {FirstUndefined(rendered_system, rendered_user)})
        ELSE [ok |-> TRUE, error |-> NoError,
              value |-> RenderedPrompt(template, messages, merged_vars)]

\* A bug render_prompt could have: an unknown id falls back to the first
\* template of the registry.
render_prompt_Fallback(reg, prompt_id, variables) ==
    IF reg = <<>>
    THEN RenderFails("KeyError", "Prompt '{prompt_id}' not found in registry", {prompt_id})
    ELSE RenderTemplate(IF PromptKnown(reg, prompt_id) THEN LookUp(reg, prompt_id) ELSE reg[1][2],
                        variables)

\* render_prompt(registry, prompt_id, variables): the RenderedPrompt returned
\* or the exception raised.
render_prompt(reg, prompt_id, variables) ==
    IF ~PromptKnown(reg, prompt_id)
    THEN RenderFails("KeyError", "Prompt '{prompt_id}' not found in registry", {prompt_id})
    ELSE RenderTemplate(LookUp(reg, prompt_id), variables)

\* The error record render_prompt logs before it raises (Jinja's error is
\* raised without one).
RenderErrorLog(reg, prompt_id, variables) ==
    IF ~PromptKnown(reg, prompt_id)
    THEN <<[message |-> "Prompt not found in registry",
            fields |-> [prompt_id |-> prompt_id,
                        available_prompts |-> [i \in 1..Len(reg) |-> reg[i][1]]]]>>
    ELSE IF MissingInputs(LookUp(reg, prompt_id), variables) # {}
    THEN <<[message |-> "Missing required prompt inputs",
            fields |-> [prompt_id |-> prompt_id,
                        missing_inputs |-> MissingInputs(LookUp(reg, prompt_id), variables),
                        required_inputs |-> LookUp(reg, prompt_id).required_inputs,
                        provided_inputs |-> [i \in 1..Len(variables) |-> variables[i][1]]]]>>
    ELSE <<>>

\* A bug render_prompt could have: the merge is made in place, by
\* template.optional_inputs.update(variables), so that the definition of the
\* registry keeps the caller's values as its defaults.
OptionalInputsAfterMerge_InPlace(optional, variables) == MergeVariables(optional, variables)

\* {**template.optional_inputs, **variables} builds a new dict; its operands,
\* the dict of the definition and the dict of the caller, keep their entries.
OptionalInputsAfterMerge(optional, variables) == optional
VariablesAfterMerge(optional, variables) == variables

\* The registry after a call of render_prompt: a call that reaches the merge
\* leaves the optional_inputs of its definition as the merge leaves them; no
\* other statement of render_prompt assigns to the registry or a definition.
RegistryAfterRender(reg, prompt_id, variables) ==
    IF ~PromptKnown(reg, prompt_id) THEN reg
    ELSE IF MissingInputs(LookUp(reg, prompt_id), variables) # {} THEN reg
    ELSE [i \in 1..Len(reg) |->
            IF reg[i][1] = prompt_id
            THEN <<reg[i][1],
                   [reg[i][2] EXCEPT !.optional_inputs = OptionalInputsAfterMerge(@, variables)]>>
            ELSE reg[i]]

\* The caller's dict after a call of render_prompt.
VariablesAfterRender(reg, prompt_id, variables) ==
    IF ~PromptKnown(reg, prompt_id) THEN variables
    ELSE IF MissingInputs(LookUp(reg, prompt_id), variables) # {} THEN variables
    ELSE VariablesAfterMerge(LookUp(reg, prompt_id).optional_inputs, variables)

\* One call render_prompt(registry, prompt_id, variables): what it returned or
\* raised is recorded with its arguments as passed; request holds the
\* caller's arguments after the call.
RenderWith(prompt_id, variables) ==
    /\ registry.loaded
    /\ Len(renders) < MaxRenders
    /\ renders' = Append(renders,
            [result |-> render_prompt(registry.dict, prompt_id, variables),
             registry_keys |-> [i \in 1..Len(registry.dict) |-> registry.dict[i][1]],
             prompt_id |-> prompt_id,
             variables |-> variables])
    /\ lastLog' = IF RenderErrorLog(registry.dict, prompt_id, variables) # <<>>
                  THEN RenderErrorLog(registry.dict, prompt_id, variables)[1]
                  ELSE lastLog
    /\ registry' = [registry EXCEPT
                        !.dict = RegistryAfterRender(registry.dict, prompt_id, variables)]
    /\ request' = [prompt_id |-> prompt_id,
                   variables |-> VariablesAfterRender(registry.dict, prompt_id, variables)]
    /\ UNCHANGED <<disk, loadOutcome, loads, listings>>
    /\ UNCHANGED filterVars
    /\ UNCHANGED <<calls, service, callOrder>>

\* One call render_prompt(registry, request.prompt_id, request.variables).
RenderPrompt == RenderWith(request.prompt_id, request.variables)

\* The instants datetime.utcnow() may return.
Times == {"t1", "t2"}

\* The instant at which the load of a service that holds its registry
\* returned: the earlier of the two.
LoadInstant == "t1"

\* list_prompt_metadata(registry) at the instant now: one PromptMetadata per
\* definition, in the order of registry.values().
list_prompt_metadata(reg, now) ==
    [i \in 1..Len(reg) |->
        [id |-> reg[i][2].id,
         content_hash |-> reg[i][2].template_hash,
         description |-> reg[i][2].description,
         loaded_at |-> now]]

\* One call list_prompt_metadata(registry).
ListPromptMetadata ==
    /\ registry.loaded
    /\ \E now \in Times : listings' = <<list_prompt_metadata(registry.dict, now)>>
    /\ UNCHANGED <<disk, request, registry, loadOutcome, loads, renders, lastLog>>
    /\ UNCHANGED filterVars
    /\ UNCHANGED <<calls, service, callOrder>>

\* ---- the requests ----
PromptIds == Stems \cup {"no_such_prompt"}

CallerKeys == {"logs", "namespace"}
CallerValues == {ValX, ValProd}

\* The dicts a caller may pass: any of the keys, in any insertion order.
VariableDicts ==
    UNION {{d \in [1..n -> CallerKeys \X CallerValues] :
                \A i, j \in 1..n : d[i][1] = d[j][1] => i = j} : n \in 0..Cardinality(CallerKeys)}

\* A prompts directory and a request; nothing loaded yet; the span filter is
\* not in use.
RegistryInit ==
    /\ disk \in Disks
    /\ request \in [prompt_id : PromptIds, variables : VariableDicts]
    /\ registry = NotLoaded
    /\ loadOutcome = [ok |-> FALSE, error |-> None, file |-> None]
    /\ loads = 0
    /\ renders = <<>>
    /\ lastLog = <<>>
    /\ listings = <<>>
    /\ calls = <<>>
    /\ callOrder = NoOrder
    /\ service = NotStarted
    /\ spans = [s \in SpanIds |-> NoSpan]
    /\ filterNext = BatchProcessor
    /\ nextOnStart = [s \in SpanIds |-> <<>>]
    /\ nextOnEnd = [s \in SpanIds |-> <<>>]
    /\ filterOnEnd = [s \in SpanIds |-> "none"]
    /\ lifecycle = NoLifecycle

RegistryNext ==
    \/ LoadRegistry
    \/ RenderPrompt

RegistrySpec == RegistryInit /\ [][RegistryNext]_vars

(***************************************************************************)
(* The registry in service: loaded once, then rendered from                *)
(***************************************************************************)
\* The prompts directories of the service under study: both stems present,
\* every file well-formed and declaring its stem.
ServeDisks ==
    {[readable |-> TRUE,
      files |-> [stem \in Stems |->
                    RawOfKind(IF stem = "foo" THEN kinds[2] ELSE kinds[1], stem)]] :
        kinds \in {<<5, 6>>, <<7, 1>>}}

\* The variables of the render calls the service makes: any of the caller's
\* dicts whose "logs", if present, is the same text.
ServeVariables ==
    {d \in VariableDicts : \A i \in 1..Len(d) : d[i][1] = "logs" => d[i][2] = ValX}

\* The render calls the service makes: any definition with any of these
\* variables, or an id no file declares.
ServeRequests ==
    [prompt_id : Stems, variables : ServeVariables]
    \cup {[prompt_id |-> "no_such_prompt", variables |-> <<>>]}

\* The state after registry = load_prompt_registry(prompts_dir) returned, the
\* files enumerated in any order; no render call made yet.
ServeInit ==
    /\ disk \in ServeDisks
    /\ request = [prompt_id |-> None, variables |-> <<>>]
    /\ \E order \in Orders(Glob(disk)) :
          registry = [loaded |-> TRUE, dict |-> load_prompt_registry(disk, order).registry]
    /\ loadOutcome = [ok |-> TRUE, error |-> None, file |-> None]
    /\ loads = 1
    /\ renders = <<>>
    /\ lastLog = <<>>
    /\ listings = <<>>
    /\ calls = <<>>
    /\ callOrder = NoOrder
    /\ service = NotStarted
    /\ spans = [s \in SpanIds |-> NoSpan]
    /\ filterNext = BatchProcessor
    /\ nextOnStart = [s \in SpanIds |-> <<>>]
    /\ nextOnEnd = [s \in SpanIds |-> <<>>]
    /\ filterOnEnd = [s \in SpanIds |-> "none"]
    /\ lifecycle = NoLifecycle

\* render_prompt(registry, r.prompt_id, r.variables) for a request r.
ServeRender ==
    \E r \in ServeRequests : RenderWith(r.prompt_id, r.variables)

ServeNext ==
    \/ ServeRender
    \/ ListPromptMetadata

ServeSpec == ServeInit /\ [][ServeNext]_vars

(***************************************************************************)
(* Loading two definitions whose bodies are close to one another           *)
(***************************************************************************)
\* Literal bodies: a word, the word with a character more, and the word with
\* whitespace or a line ending before or after it.
SystemBodies ==
    {<<"a">>, <<"a", "b">>, <<"a", " ">>, <<" ", "a">>, <<"a", "\n">>, <<"a", "\r", "\n">>}

UserBodies ==
    {<<"c">>, <<"b", "c">>, <<" ", "c">>, <<"c", " ">>, <<"c", "\r", "\n">>}

\* The prompts directories with both stems present, every file well-formed,
\* declaring its stem and no input.
HashDisks ==
    {[readable |-> TRUE,
      files |-> [stem \in Stems |->
                    IF stem = "foo" THEN RawFile(stem, b[3], b[4], <<>>, <<>>)
                    ELSE RawFile(stem, b[1], b[2], <<>>, <<>>)]] :
        b \in SystemBodies \X UserBodies \X SystemBodies \X UserBodies}

\* Such a directory; nothing loaded yet.
HashInit ==
    /\ disk \in HashDisks
    /\ request = [prompt_id |-> None, variables |-> <<>>]
    /\ registry = NotLoaded
    /\ loadOutcome = [ok |-> FALSE, error |-> None, file |-> None]
    /\ loads = 0
    /\ renders = <<>>
    /\ lastLog = <<>>
    /\ listings = <<>>
    /\ calls = <<>>
    /\ callOrder = NoOrder
    /\ service = NotStarted
    /\ spans = [s \in SpanIds |-> NoSpan]
    /\ filterNext = BatchProcessor
    /\ nextOnStart = [s \in SpanIds |-> <<>>]
    /\ nextOnEnd = [s \in SpanIds |-> <<>>]
    /\ filterOnEnd = [s \in SpanIds |-> "none"]
    /\ lifecycle = NoLifecycle

HashNext ==
    \/ LoadRegistry

HashSpec == HashInit /\ [][HashNext]_vars

(***************************************************************************)
(* The FastAPI application (log_analyzer/main.py)                          *)
(***************************************************************************)
\* Bound of the service model: requests handled.
MaxRequests == 2

\* How a dependency answers a probe of the lifespan function. The probes call
\* no raise_for_status, so only a failure to connect raises.
ProbeAnswers == {"2xx", "5xx", "unreachable"}

\* check_dependencies: GET {LOKI_URL}/ready, then GET {LLAMA_URL}/v1/models;
\* an exception of either ends the startup, otherwise the function yields and
\* the application accepts requests. deps lists the probes made.
Startup ==
    /\ service.phase = "starting"
    /\ \E loki, llama \in ProbeAnswers :
          service' = [service EXCEPT
                        !.deps = IF loki = "unreachable" THEN <<"loki">>
                                 ELSE <<"loki", "llama">>,
                        !.phase = IF loki = "unreachable" \/ llama = "unreachable"
                                  THEN "failed" ELSE "serving"]
    /\ UNCHANGED filterVars
    /\ UNCHANGED registryVars
    /\ UNCHANGED <<listings, calls, callOrder>>

\* What Loki and the LLM may answer to a request of the handler.
LokiAnswers == {"error", "no streams", "streams without lines", "lines"}
LlmAnswers == {"error", "completion"}

\* The status analyze_logs answers with: 500 when a call to Loki or to the
\* LLM raises, 404 when Loki returned no log line, else 200.
AnalyzeStatus(loki, llm) ==
    IF loki = "error" THEN 500
    ELSE IF loki \in {"no streams", "streams without lines"} THEN 404
    ELSE IF llm = "error" THEN 500
    ELSE 200

\* POST /v1/analyze, handled by analyze_logs: the prompt it sends is built by
\* build_llm_prompt and call_llm; the handler reads no registry. served lists
\* the answers, each with whether a registry was loaded when it was given.
AnalyzeLogs ==
    /\ service.phase = "serving"
    /\ Len(service.served) < MaxRequests
    /\ \E loki \in LokiAnswers, llm \in LlmAnswers :
          service' = [service EXCEPT
                        !.served = Append(@, [endpoint |-> "/v1/analyze",
                                                status |-> AnalyzeStatus(loki, llm),
                                                registry_loaded |-> registry.loaded])]
    /\ UNCHANGED filterVars
    /\ UNCHANGED registryVars
    /\ UNCHANGED <<listings, calls, callOrder>>

\* The process before its lifespan function ran, with any prompts directory
\* on disk.
ServiceInit ==
    /\ service = NotStarted
    /\ disk \in Disks
    /\ request = [prompt_id |-> None, variables |-> <<>>]
    /\ registry = NotLoaded
    /\ loadOutcome = [ok |-> FALSE, error |-> None, file |-> None]
    /\ loads = 0
    /\ renders = <<>>
    /\ lastLog = <<>>
    /\ listings = <<>>
    /\ calls = <<>>
    /\ callOrder = NoOrder
    /\ spans = [s \in SpanIds |-> NoSpan]
    /\ filterNext = BatchProcessor
    /\ nextOnStart = [s \in SpanIds |-> <<>>]
    /\ nextOnEnd = [s \in SpanIds |-> <<>>]
    /\ filterOnEnd = [s \in SpanIds |-> "none"]
    /\ lifecycle = NoLifecycle

\* main.py calls neither load_prompt_registry nor render_prompt: the process
\* starts and then handles requests.
ServiceNext ==
    \/ Startup
    \/ AnalyzeLogs

ServiceSpec == ServiceInit /\ [][ServiceNext]_vars

(***************************************************************************)
(* The streaming endpoint                                                  *)
(***************************************************************************)
\* Bound of the streaming model: the lines the LLM backend sends in one
\* response.
MaxLines == 3

\* The normalized logs of a Loki answer that carries log lines.
NormalizedLogs ==
    <<[time |-> "t", source |-> "src", pod |-> "p", node |-> "n", message |-> "msg"]>>

\* "\n".join(lines), as the pieces of the text.
JoinLines(lines) ==
    [i \in 1..(2 * Len(lines) - 1) |-> IF i % 2 = 1 THEN lines[(i + 1) \div 2] ELSE "\n"]

\* The three lines build_text_header appends for each log.
RECURSIVE LogLines(_)
LogLines(logs) ==
    IF logs = <<>> THEN <<>>
    ELSE <<"[" \o Head(logs).time \o "] " \o Head(logs).source
             \o " (pod=" \o Head(logs).pod \o ", node=" \o Head(logs).node \o ")",
           Head(logs).message,
           "">> \o LogLines(Tail(logs))

\* build_text_header(normalized_logs, time_range)
build_text_header(normalized_logs) ==
    JoinLines(<<"=== Log Analyzer ===",
                "Cluster: homelab",
                "Time Window: start -> end",
                "Log Count: n",
                "",
                "--- Logs ---">>
              \o LogLines(normalized_logs)
              \o <<"--- Analysis ---", "">>)

\* The chunks event_stream yields besides the LLM's deltas, as pieces of text.
HeaderChunk == build_text_header(NormalizedLogs) \o <<"\n">>
EndChunk == <<"\n", "\n", "=== End of Analysis ===", "\n">>
NoLogsChunk == <<"{\"error\": \"No logs found\"}", "\n">>

\* Lines of the LLM backend's response: a data line with a content delta
\* ("A", "B", or an empty content), a line that does not start with "data:",
\* the data line [DONE], and a data line that is no JSON.
SseLines ==
    { [kind |-> "delta", content |-> "A"],
      [kind |-> "delta", content |-> "B"],
      [kind |-> "delta", content |-> ""],
      [kind |-> "other", content |-> ""],
      [kind |-> "done", content |-> ""],
      [kind |-> "malformed", content |-> ""] }

\* A bug stream_llm could have: [DONE] is skipped like any line without
\* content, and the loop reads on.
StreamLlmOnLine_IgnoresDone(line) ==
    IF line.kind \in {"other", "done"} THEN [next |-> "continue", yield |-> <<>>]
    ELSE IF line.kind = "malformed" THEN [next |-> "raise", yield |-> <<>>]
    ELSE IF line.content # "" THEN [next |-> "continue", yield |-> <<<<line.content>>>>]
    ELSE [next |-> "continue", yield |-> <<>>]

\* The body of stream_llm's loop for one line: skip a line without "data:",
\* break on [DONE], raise on a payload json.loads rejects, yield a content
\* that is not empty.
StreamLlmOnLine(line) ==
    IF line.kind = "other" THEN [next |-> "continue", yield |-> <<>>]
    ELSE IF line.kind = "done" THEN [next |-> "break", yield |-> <<>>]
    ELSE IF line.kind = "malformed" THEN [next |-> "raise", yield |-> <<>>]
    ELSE IF line.content # "" THEN [next |-> "continue", yield |-> <<<<line.content>>>>]
    ELSE [next |-> "continue", yield |-> <<>>]

\* The response analyze_logs_stream returns and the first run of its
\* generator: StreamingResponse(event_stream(), media_type="text/plain") has
\* status 200, sent before the generator runs; event_stream queries Loki,
\* raises if that fails, yields the error object and returns if there is no
\* log, and else yields the header.
StreamStart(loki) ==
    [loki |-> loki,
     status |-> 200,
     media_type |-> "text/plain",
     backend |-> <<>>,
     chunks |-> IF loki = "error" THEN <<>>
                ELSE IF loki \in {"no streams", "streams without lines"} THEN <<NoLogsChunk>>
                ELSE <<HeaderChunk>>,
     pc |-> IF loki = "error" THEN "failed"
            ELSE IF loki \in {"no streams", "streams without lines"} THEN "done"
            ELSE "llm"]

\* POST /v1/analyze/stream, handled by analyze_logs_stream; requests are
\* streamed one after the other.
AnalyzeLogsStream ==
    /\ service.phase = "serving"
    /\ Len(service.served) < MaxRequests
    /\ \A i \in 1..Len(service.stream) : service.stream[i].pc # "llm"
    /\ \E loki \in LokiAnswers :
          service' = [service EXCEPT
                        !.served = Append(@, [endpoint |-> "/v1/analyze/stream",
                                                status |-> StreamStart(loki).status,
                                                registry_loaded |-> registry.loaded]),
                        !.stream = <<StreamStart(loki)>>]
    /\ UNCHANGED filterVars
    /\ UNCHANGED registryVars
    /\ UNCHANGED <<listings, calls, callOrder>>

\* The backend sends one more line; stream_llm handles it, and event_stream
\* passes on what stream_llm yields, then yields the end chunk once
\* stream_llm is exhausted.
StreamLlmNext(line) ==
    /\ Len(service.stream) = 1
    /\ service.stream[1].pc = "llm"
    /\ Len(service.stream[1].backend) < MaxLines
    /\ LET step == StreamLlmOnLine(line)
       IN  service' = [service EXCEPT
                !.stream[1].backend = Append(@, line),
                !.stream[1].chunks =
                    @ \o step.yield \o (IF step.next = "break" THEN <<EndChunk>> ELSE <<>>),
                !.stream[1].pc = IF step.next = "break" THEN "done"
                                 ELSE IF step.next = "raise" THEN "failed"
                                 ELSE "llm"]
    /\ UNCHANGED filterVars
    /\ UNCHANGED registryVars
    /\ UNCHANGED <<listings, calls, callOrder>>

\* The backend's response ends: with the end of the body (aiter_lines is
\* exhausted, stream_llm returns, event_stream yields the end chunk) or with
\* a failure of the connection (httpx raises inside the generator).
StreamLlmEnds(how) ==
    /\ Len(service.stream) = 1
    /\ service.stream[1].pc = "llm"
    /\ service' = [service EXCEPT
            !.stream[1].chunks = @ \o (IF how = "eof" THEN <<EndChunk>> ELSE <<>>),
            !.stream[1].pc = IF how = "eof" THEN "done" ELSE "failed"]
    /\ UNCHANGED filterVars
    /\ UNCHANGED registryVars
    /\ UNCHANGED <<listings, calls, callOrder>>

\* The process before its lifespan function ran.
StreamInit ==
    /\ service = NotStarted
    /\ disk \in ServeDisks
    /\ request = [prompt_id |-> None, variables |-> <<>>]
    /\ registry = NotLoaded
    /\ loadOutcome = [ok |-> FALSE, error |-> None, file |-> None]
    /\ loads = 0
    /\ renders = <<>>
    /\ lastLog = <<>>
    /\ listings = <<>>
    /\ calls = <<>>
    /\ callOrder = NoOrder
    /\ spans = [s \in SpanIds |-> NoSpan]
    /\ filterNext = BatchProcessor
    /\ nextOnStart = [s \in SpanIds |-> <<>>]
    /\ nextOnEnd = [s \in SpanIds |-> <<>>]
    /\ filterOnEnd = [s \in SpanIds |-> "none"]
    /\ lifecycle = NoLifecycle

StreamNext ==
    \/ Startup
    \/ AnalyzeLogs
    \/ AnalyzeLogsStream
    \/ \E line \in SseLines : StreamLlmNext(line)
    \/ \E how \in {"eof", "reset"} : StreamLlmEnds(how)

StreamSpec == StreamInit /\ [][StreamNext]_vars

(***************************************************************************)
(* render_prompt on concurrent threads, statement by statement             *)
(***************************************************************************)
\* Bound of the concurrent model: threads that call render_prompt.
NumCalls == 2
CallIds == 1..NumCalls

\* The requests the threads make: one definition with no variables, with
\* "logs", with "logs" and "namespace"; and an id no file declares.
ConcurrentRequests ==
    {r \in ServeRequests :
        /\ r.prompt_id # "foo"
        /\ r.variables \in {<<>>, << <<"logs", ValX>> >>,
                             << <<"logs", ValX>>, <<"namespace", ValProd>> >>}}

\* A thread that has not called yet.
IdleFrame ==
    [pc |-> "idle", prompt_id |-> None, variables |-> <<>>, rendered_system |-> <<>>,
     rendered_user |-> <<>>, overlapped |-> {}, result |-> <<>>]

\* A bug render_prompt could have: merged_vars is a module-level dict that
\* every call fills and reads.
MergedVarsCell_ModuleLevel(c) == 0

\* Where a call keeps merged_vars: a local of its own frame.
MergedVarsCell(c) == c

\* The definition a call holds after template = registry[prompt_id]: the
\* object of the registry itself, read when a statement uses it.
TemplateOf(c) == LookUp(registry.dict, calls.frames[c].prompt_id)

\* A call returns or raises: its frame ends with the result.
Finished(c, result) == [calls.frames[c] EXCEPT !.pc = "done", !.result = <<result>>]

\* A thread calls render_prompt(registry, r.prompt_id, r.variables).
CallStart(c) ==
    /\ calls.frames[c].pc = "idle"
    /\ \E r \in ConcurrentRequests :
          calls' = [calls EXCEPT !.frames[c] =
                        [@ EXCEPT !.pc = "lookup", !.prompt_id = r.prompt_id,
                                  !.variables = r.variables]]
    /\ UNCHANGED filterVars
    /\ UNCHANGED registryVars
    /\ UNCHANGED <<listings, service, callOrder>>

\* if prompt_id not in registry: log and raise KeyError; template = registry[prompt_id]
Lookup(c) ==
    /\ calls.frames[c].pc = "lookup"
    /\ IF PromptKnown(registry.dict, calls.frames[c].prompt_id)
       THEN /\ calls' = [calls EXCEPT !.frames[c].pc = "check"]
            /\ UNCHANGED lastLog
       ELSE /\ calls' = [calls EXCEPT !.frames[c] =
                    Finished(c, RenderFails("KeyError",
                                            "Prompt '{prompt_id}' not found in registry",
                                            {calls.frames[c].prompt_id}))]
            /\ lastLog' = RenderErrorLog(registry.dict, calls.frames[c].prompt_id,
                                         calls.frames[c].variables)[1]
    /\ UNCHANGED filterVars
    /\ UNCHANGED <<disk, request, registry, loadOutcome, loads, renders>>
    /\ UNCHANGED <<listings, service, callOrder>>

\* missing = set(template.required_inputs) - variables.keys(); if missing: log
\* and raise ValueError
CheckInputs(c) ==
    /\ calls.frames[c].pc = "check"
    /\ LET missing == MissingInputs(TemplateOf(c), calls.frames[c].variables)
       IN  IF missing = {}
           THEN /\ calls' = [calls EXCEPT !.frames[c].pc = "merge"]
                /\ UNCHANGED lastLog
           ELSE /\ calls' = [calls EXCEPT !.frames[c] =
                        Finished(c, RenderFails("ValueError",
                                                "Missing required inputs: {missing}", missing))]
                /\ lastLog' = RenderErrorLog(registry.dict, calls.frames[c].prompt_id,
                                             calls.frames[c].variables)[1]
    /\ UNCHANGED filterVars
    /\ UNCHANGED <<disk, request, registry, loadOutcome, loads, renders>>
    /\ UNCHANGED <<listings, service, callOrder>>

\* merged_vars = {**template.optional_inputs, **variables}. overlapped notes
\* the calls that hold a merged_vars of their own at this moment.
Merge(c) ==
    /\ calls.frames[c].pc = "merge"
    /\ calls' = [calls EXCEPT
            !.merged[MergedVarsCell(c)] =
                MergeVariables(TemplateOf(c).optional_inputs, calls.frames[c].variables),
            !.frames[c] =
                [@ EXCEPT !.pc = "system",
                          !.variables = VariablesAfterMerge(TemplateOf(c).optional_inputs, @),
                          !.overlapped = {o \in CallIds \ {c} :
                                            calls.frames[o].pc \in {"system", "user", "return"}}]]
    /\ registry' = [registry EXCEPT
            !.dict = RegistryAfterRender(registry.dict, calls.frames[c].prompt_id,
                                         calls.frames[c].variables)]
    /\ UNCHANGED filterVars
    /\ UNCHANGED <<disk, request, loadOutcome, loads, renders, lastLog>>
    /\ UNCHANGED <<listings, service, callOrder>>

\* rendered_system = jinja_env.from_string(template.system_template).render(merged_vars)
RenderSystem(c) ==
    /\ calls.frames[c].pc = "system"
    /\ LET rendered == JinjaRender(TemplateOf(c).system_template,
                                   calls.merged[MergedVarsCell(c)])
       IN  calls' = [calls EXCEPT !.frames[c] =
                IF rendered.ok
                THEN [@ EXCEPT !.pc = "user", !.rendered_system = rendered.text]
                ELSE Finished(c, RenderFails("UndefinedError", "'{name}' is undefined",
                                             {rendered.undefined}))]
    /\ UNCHANGED filterVars
    /\ UNCHANGED registryVars
    /\ UNCHANGED <<listings, service, callOrder>>

\* rendered_user = jinja_env.from_string(template.user_template).render(merged_vars)
RenderUser(c) ==
    /\ calls.frames[c].pc = "user"
    /\ LET rendered == JinjaRender(TemplateOf(c).user_template,
                                   calls.merged[MergedVarsCell(c)])
       IN  calls' = [calls EXCEPT !.frames[c] =
                IF rendered.ok
                THEN [@ EXCEPT !.pc = "return", !.rendered_user = rendered.text]
                ELSE Finished(c, RenderFails("UndefinedError", "'{name}' is undefined",
                                             {rendered.undefined}))]
    /\ UNCHANGED filterVars
    /\ UNCHANGED registryVars
    /\ UNCHANGED <<listings, service, callOrder>>

\* messages = [...]; variables_hash = sha256_json(merged_vars); rendered_hash =
\* sha256_json(messages); return RenderedPrompt(...)
Return(c) ==
    /\ calls.frames[c].pc = "return"
    /\ LET messages == BuildMessages(calls.frames[c].rendered_system,
                                     calls.frames[c].rendered_user)
       IN  calls' = [calls EXCEPT !.frames[c] =
                Finished(c, [ok |-> TRUE, error |-> NoError,
                             value |-> RenderedPrompt(TemplateOf(c), messages,
                                                      calls.merged[MergedVarsCell(c)])])]
    /\ UNCHANGED filterVars
    /\ UNCHANGED registryVars
    /\ UNCHANGED <<listings, service, callOrder>>

\* The state after registry = load_prompt_registry(prompts_dir) returned; no
\* thread has called render_prompt yet.
ConcurrentInit ==
    /\ callOrder = NoOrder
    /\ calls = [frames |-> [c \in CallIds |-> IdleFrame],
                merged |-> [cell \in 0..NumCalls |-> <<>>]]
    /\ disk \in ServeDisks
    /\ request = [prompt_id |-> None, variables |-> <<>>]
    /\ \E order \in Orders(Glob(disk)) :
          registry = [loaded |-> TRUE, dict |-> load_prompt_registry(disk, order).registry]
    /\ loadOutcome = [ok |-> TRUE, error |-> None, file |-> None]
    /\ loads = 1
    /\ renders = <<>>
    /\ lastLog = <<>>
    /\ listings = <<>>
    /\ service = NotStarted
    /\ spans = [s \in SpanIds |-> NoSpan]
    /\ filterNext = BatchProcessor
    /\ nextOnStart = [s \in SpanIds |-> <<>>]
    /\ nextOnEnd = [s \in SpanIds |-> <<>>]
    /\ filterOnEnd = [s \in SpanIds |-> "none"]
    /\ lifecycle = NoLifecycle

\* Any thread takes its next statement.
ConcurrentNext ==
    \E c \in CallIds :
        \/ CallStart(c)
        \/ Lookup(c)
        \/ CheckInputs(c)
        \/ Merge(c)
        \/ RenderSystem(c)
        \/ RenderUser(c)
        \/ Return(c)

ConcurrentSpec == ConcurrentInit /\ [][ConcurrentNext]_vars

(***************************************************************************)
(* Prompt registry: properties                                             *)
(***************************************************************************)
\* The keys of the loaded registry and of the caller's variables.
RegistryIds == {registry.dict[i][1] : i \in 1..Len(registry.dict)}
ProvidedKeys == {request.variables[i][1] : i \in 1..Len(request.variables)}

\* The definition the registry holds for the requested id.
RequestedTemplate ==
    registry.dict[CHOOSE i \in 1..Len(registry.dict) : registry.dict[i][1] = request.prompt_id][2]

RequiredNames(template) ==
    {template.required_inputs[i] : i \in 1..Len(template.required_inputs)}

OptionalNames(template) ==
    {template.optional_inputs[i][1] : i \in 1..Len(template.optional_inputs)}

\* The value a dict holds for a key.
ValueOf(d, k) == d[CHOOSE i \in 1..Len(d) : d[i][1] = k][2]

\* The merged variables as the merge rule defines them: the caller's value for
\* every key the caller supplied, the template's default for the others.
ExpectedMerged(template) ==
    [k \in OptionalNames(template) \cup ProvidedKeys |->
        IF k \in ProvidedKeys THEN ValueOf(request.variables, k)
        ELSE ValueOf(template.optional_inputs, k)]

\* A mapping written as a dict, keys in sorted order.
AsDict(f) ==
    LET ks == SelectSeq(KeyOrder, LAMBDA k : k \in DOMAIN f)
    IN  [i \in 1..Len(ks) |-> <<ks[i], f[ks[i]]>>]

\* The variables a template body prints.
Referenced(body) ==
    {KeyOrder[k] : k \in {k \in 1..Len(KeyOrder) :
                            \E i \in 1..Len(body) : body[i] = Placeholder(KeyOrder[k])}}

\* C5: render_prompt with a prompt_id that is no key of the registry fails with
\* the not-found error and returns no RenderedPrompt, whatever the variables.
C5_UnknownIdNotFound ==
    \A i \in 1..Len(renders) :
        request.prompt_id \notin RegistryIds =>
            /\ ~renders[i].result.ok
            /\ renders[i].result.error.type = "KeyError"
            /\ request.prompt_id \in renders[i].result.error.names
            /\ renders[i].result.value = NoValue

\* C5 witness: an unknown id was rendered against a non-empty registry with
\* both variables supplied.
C5_Witness ==
    /\ Len(renders) > 0
    /\ request.prompt_id = "no_such_prompt"
    /\ RegistryIds # {}
    /\ ProvidedKeys = {"logs", "namespace"}

\* C6: with the prompt_id present, render_prompt fails with the missing-input
\* error exactly when some required input is no key of the caller's variables,
\* and the error names the missing inputs.
C6_MissingInputExactly ==
    \A i \in 1..Len(renders) :
        request.prompt_id \in RegistryIds =>
            LET missing == RequiredNames(RequestedTemplate) \ ProvidedKeys
            IN  IF missing # {}
                THEN /\ ~renders[i].result.ok
                     /\ renders[i].result.error.type = "ValueError"
                     /\ renders[i].result.error.names = missing
                ELSE renders[i].result.error.type # "ValueError"

\* C6 witness: required_inputs = ["logs"] and variables = {} failed naming "logs".
C6_Witness ==
    /\ Len(renders) > 0
    /\ request.prompt_id \in RegistryIds
    /\ RequestedTemplate.required_inputs = <<"logs">>
    /\ request.variables = <<>>
    /\ renders[1].result.error.type = "ValueError"
    /\ renders[1].result.error.names = {"logs"}

\* C7: if the system or the user template references a variable absent from the
\* merged variables, render_prompt fails with the undefined-variable error, which
\* names the variable and the template half (system or user); no RenderedPrompt
\* is returned.
C7_UndefinedNamesVariableAndHalf ==
    \A i \in 1..Len(renders) :
        (/\ request.prompt_id \in RegistryIds
         /\ RequiredNames(RequestedTemplate) \subseteq ProvidedKeys) =>
            LET merged == ExpectedMerged(RequestedTemplate)
                undefSystem == Referenced(RequestedTemplate.system_template) \ DOMAIN merged
                undefUser == Referenced(RequestedTemplate.user_template) \ DOMAIN merged
            IN  (undefSystem \cup undefUser # {}) =>
                    /\ ~renders[i].result.ok
                    /\ renders[i].result.error.type = "UndefinedError"
                    /\ renders[i].result.error.names \cap (undefSystem \cup undefUser) # {}
                    /\ \/ undefSystem # {} /\ "system" \in renders[i].result.error.names
                       \/ undefSystem = {} /\ "user" \in renders[i].result.error.names

\* C8: the merged variables behind the rendered content and variables_hash are
\* the caller's value for every key the caller supplied and the template's
\* default for every other optional input: a supplied value replaces the default
\* in the content, and the default appears when the caller omits the input.
C8_CallerOverridesDefaults ==
    \A i \in 1..Len(renders) :
        renders[i].result.ok =>
            LET template == RequestedTemplate
                merged == AsDict(ExpectedMerged(template))
                content == renders[i].result.value.messages[2].content
            IN  /\ renders[i].result.value.variables_hash = Sha256(JsonDict(merged))
                /\ renders[i].result.value.messages[1].content
                       = JinjaRender(template.system_template, merged).text
                /\ content = JinjaRender(template.user_template, merged).text
                /\ (/\ template.user_template = <<"{{logs}}", " ", "{{namespace}}">>
                    /\ template.optional_inputs = << <<"namespace", ValUnknown>> >>) =>
                        IF "namespace" \in ProvidedKeys
                        THEN /\ Contains(content, ValueOf(request.variables, "namespace"))
                             /\ ~Contains(content, ValUnknown)
                        ELSE Contains(content, ValUnknown)

\* C8 witness: optional_inputs = {"namespace": "unknown"}, variables =
\* {"namespace": "prod", "logs": "x"}: the user content holds "prod".
C8_Witness ==
    /\ Len(renders) > 0
    /\ renders[1].result.ok
    /\ RequestedTemplate.optional_inputs = << <<"namespace", ValUnknown>> >>
    /\ request.variables = << <<"namespace", ValProd>>, <<"logs", ValX>> >>
    /\ renders[1].result.value.messages[2].content = <<"x", " ", "p", "r", "o", "d">>

\* C9: every RenderedPrompt has exactly two messages in fixed order: first role
\* "system" with the rendered system template, then role "user" with the
\* rendered user template.
C9_TwoMessagesSystemThenUser ==
    \A i \in 1..Len(renders) :
        renders[i].result.ok =>
            LET template == RequestedTemplate
                merged == AsDict(ExpectedMerged(template))
                messages == renders[i].result.value.messages
            IN  /\ Len(messages) = 2
                /\ messages[1].role = "system"
                /\ messages[1].content = JinjaRender(template.system_template, merged).text
                /\ messages[2].role = "user"
                /\ messages[2].content = JinjaRender(template.user_template, merged).text

\* C9 witness: a render whose system and user contents differ.
C9_Witness ==
    /\ Len(renders) > 0
    /\ renders[1].result.ok
    /\ renders[1].result.value.messages[1] = [role |-> "system", content |-> <<"S">>]
    /\ renders[1].result.value.messages[2] =
            [role |-> "user", content |-> <<"x", " ", "u","n","k","n","o","w","n">>]

\* C10: for fixed templates on disk, prompt id and variables, every Load then
\* Render gives the same template_hash, variables_hash, rendered_hash and
\* messages (and the same error when it fails), whatever the number of earlier
\* calls and the order in which the files were enumerated.
C10_LoadRenderDeterministic ==
    \A i, j \in 1..Len(renders) : renders[i].result = renders[j].result

\* C10 witness: two successful renders, the registry loaded anew in between
\* with the files enumerated in another order.
C10_Witness ==
    /\ Len(renders) = 2
    /\ loads = 2
    /\ renders[1].result.ok
    /\ renders[2].result.ok
    /\ renders[1].registry_keys # renders[2].registry_keys

(***************************************************************************)
(* Claims about the hashes of a render                                     *)
(***************************************************************************)
\* The render calls made so far that returned a RenderedPrompt.
Rendered == {i \in 1..Len(renders) : renders[i].result.ok}

\* The merged variables of a call as the merge rule defines them: the caller's
\* value for every key the caller supplied, the default of the called
\* definition for the others.
MergedOfCall(call) ==
    LET template == ValueOf(registry.dict, call.prompt_id)
        provided == {call.variables[i][1] : i \in 1..Len(call.variables)}
    IN  [k \in OptionalNames(template) \cup provided |->
            IF k \in provided THEN ValueOf(call.variables, k)
            ELSE ValueOf(template.optional_inputs, k)]

\* C11: two renders whose merged variables hold the same entries get the same
\* variables_hash, in whatever order the caller inserted its variables and the
\* definition wrote its defaults.
C11_VariablesHashIgnoresOrder ==
    \A i, j \in Rendered :
        MergedOfCall(renders[i]) = MergedOfCall(renders[j])
        => renders[i].result.value.variables_hash = renders[j].result.value.variables_hash

\* C11 witness: the same definition rendered twice with the same entries that
\* the caller inserted in two different orders.
C11_Witness ==
    \E i, j \in Rendered :
        /\ renders[i].prompt_id = renders[j].prompt_id
        /\ renders[i].variables # renders[j].variables
        /\ MergedOfCall(renders[i]) = MergedOfCall(renders[j])
        /\ MergeVariables(ValueOf(registry.dict, renders[i].prompt_id).optional_inputs,
                          renders[i].variables)
           # MergeVariables(ValueOf(registry.dict, renders[j].prompt_id).optional_inputs,
                            renders[j].variables)

\* C12: two renders whose merged variables differ, in the value of a key or in
\* the set of keys, get different variables_hash values.
C12_VariablesHashTellsValuesApart ==
    \A i, j \in Rendered :
        MergedOfCall(renders[i]) # MergedOfCall(renders[j])
        => renders[i].result.value.variables_hash # renders[j].result.value.variables_hash

\* C12 witness: two renders whose merged variables have the same keys and
\* differ in the value of exactly one of them.
C12_Witness ==
    \E i, j \in Rendered :
        /\ DOMAIN MergedOfCall(renders[i]) = DOMAIN MergedOfCall(renders[j])
        /\ Cardinality({k \in DOMAIN MergedOfCall(renders[i]) :
                            MergedOfCall(renders[i])[k] # MergedOfCall(renders[j])[k]}) = 1

(***************************************************************************)
(* Claims about template_hash                                              *)
(***************************************************************************)
\* The definitions the registry holds.
Loaded == {registry.dict[i][2] : i \in 1..Len(registry.dict)}

\* A body without what the claim calls incidental: its line endings written
\* as LF, the whitespace before and after it removed.
Essential(body) == Strip(ReplaceCRLF(body))

\* C13: two loaded definitions whose (system_template, user_template) pairs
\* differ in any character have different template_hash values.
C13_TemplateHashTellsBodiesApart ==
    \A t, u \in Loaded :
        <<t.system_template, t.user_template>> # <<u.system_template, u.user_template>>
        => t.template_hash # u.template_hash

\* C14: two loaded definitions whose system bodies and whose user bodies are
\* the same but for CRLF against LF and for whitespace leading or trailing a
\* body have the same template_hash.
C14_TemplateHashIgnoresIncidentalWhitespace ==
    \A t, u \in Loaded :
        /\ Essential(t.system_template) = Essential(u.system_template)
        /\ Essential(t.user_template) = Essential(u.user_template)
        => t.template_hash = u.template_hash

(***************************************************************************)
(* Claims about Load                                                       *)
(***************************************************************************)
\* The files of the directory that parse and declare an id other than their
\* filename stem.
MismatchedFiles ==
    {stem \in Glob(disk) :
        /\ disk.files[stem].yaml_ok
        /\ "id" \notin disk.files[stem].absent
        /\ disk.files[stem].id # stem}

\* C15: once Load has run on a directory with a file whose declared id
\* differs from its stem, it has failed and the caller holds no registry; and
\* in every registry Load returned, each key is the id of its definition and
\* the stem of a file that declares that id and those bodies.
C15_IdMatchesStemOrLoadFails ==
    /\ (loads > 0 /\ MismatchedFiles # {}) => (~loadOutcome.ok /\ registry = NotLoaded)
    /\ registry.loaded =>
          \A i \in 1..Len(registry.dict) :
              LET key == registry.dict[i][1]
                  template == registry.dict[i][2]
              IN  /\ template.id = key
                  /\ key \in Glob(disk)
                  /\ disk.files[key].id = key
                  /\ disk.files[key].system = template.system_template
                  /\ disk.files[key].user = template.user_template

\* C15 witness: Load has failed with the id mismatch on a directory that also
\* holds a well-formed file.
C15_Witness ==
    /\ loads > 0
    /\ MismatchedFiles # {}
    /\ loadOutcome.error = "ValueError: ID mismatch"
    /\ \E stem \in Glob(disk) : load_prompt_file(stem, disk.files[stem]).ok

\* C16: after Load has run, either it succeeded and the caller's registry
\* holds exactly one definition per file of the directory, or it failed and
\* the caller holds no registry at all.
C16_LoadAllOrNothing ==
    loads > 0 =>
        \/ /\ loadOutcome.ok
           /\ registry.loaded
           /\ Len(registry.dict) = Cardinality(Glob(disk))
           /\ \A stem \in Glob(disk) :
                 \E i \in 1..Len(registry.dict) :
                     /\ registry.dict[i][1] = stem
                     /\ registry.dict[i][2] = load_prompt_file(stem, disk.files[stem]).template
        \/ /\ ~loadOutcome.ok
           /\ registry = NotLoaded

\* C16 witness: Load has failed on the second file it read, the first one
\* being well-formed.
C16_Witness ==
    /\ loads > 0
    /\ ~loadOutcome.ok
    /\ \E stem \in Glob(disk) :
          /\ stem # loadOutcome.file
          /\ load_prompt_file(stem, disk.files[stem]).ok
    /\ registry = NotLoaded

\* C17: Load on a directory that is missing or cannot be read fails.
C17_UnreadableDirectoryFails ==
    (loads > 0 /\ ~disk.readable) => ~loadOutcome.ok

(***************************************************************************)
(* Claims about the startup of the service                                 *)
(***************************************************************************)
\* C18: the service is in its serving state, and has answered an analysis
\* request, only with a registry that a completed, successful Load returned.
C18_NoServingBeforeLoad ==
    (service.phase = "serving" \/ service.served # <<>>)
    => (loads > 0 /\ loadOutcome.ok /\ registry.loaded)

(***************************************************************************)
(* Claims about the registry in service                                    *)
(***************************************************************************)
\* C19: whatever render_prompt and list_prompt_metadata calls were made, the
\* registry holds the keys and the definitions Load returned for the
\* directory, and the caller's variables are as the caller passed them to the
\* latest render_prompt.
C19_RegistryReadOnlyAfterLoad ==
    /\ \E order \in Orders(Glob(disk)) :
          registry = [loaded |-> TRUE, dict |-> load_prompt_registry(disk, order).registry]
    /\ renders # <<>> =>
          request = [prompt_id |-> renders[Len(renders)].prompt_id,
                     variables |-> renders[Len(renders)].variables]

\* C19 witness: a render that returned a prompt with a caller's value in
\* place of a default, a render that failed, and a listing have been made.
C19_Witness ==
    /\ listings # <<>>
    /\ \E i, j \in 1..Len(renders) :
          /\ ~renders[i].result.ok
          /\ renders[j].result.ok
          /\ \E k \in DOMAIN MergedOfCall(renders[j]) :
                /\ k \in OptionalNames(ValueOf(registry.dict, renders[j].prompt_id))
                /\ MergedOfCall(renders[j])[k]
                   # ValueOf(ValueOf(registry.dict, renders[j].prompt_id).optional_inputs, k)

(***************************************************************************)
(* Claims about concurrent rendering                                       *)
(***************************************************************************)
\* What a call returns or raises when it runs alone on the registry Load
\* returned for the directory.
AloneResult(prompt_id, variables) ==
    render_prompt(load_prompt_registry(disk, CHOOSE order \in Orders(Glob(disk)) : TRUE).registry,
                  prompt_id, variables)

\* C20: under every interleaving of the statements of concurrent
\* render_prompt calls, a call that has finished returned or raised exactly
\* what it returns or raises when run alone.
C20_ConcurrentRenderAsAlone ==
    \A c \in CallIds :
        calls.frames[c].pc = "done"
        => calls.frames[c].result
           = <<AloneResult(calls.frames[c].prompt_id, calls.frames[c].variables)>>

\* C20 witness: two calls have returned prompts that differ, one of them
\* having built its merged variables while the other was between its own
\* merge and its return.
C20_Witness ==
    \E c, o \in CallIds :
        /\ calls.frames[c].pc = "done"
        /\ calls.frames[o].pc = "done"
        /\ o \in calls.frames[c].overlapped
        /\ calls.frames[c].result[1].ok
        /\ calls.frames[o].result[1].ok
        /\ calls.frames[c].result # calls.frames[o].result

(***************************************************************************)
(* Claims about list_prompt_metadata                                       *)
(***************************************************************************)
\* C21: in what list_prompt_metadata returned, the loaded_at of every entry is
\* the instant at which the registry was loaded, so that it is the same for
\* all entries and for every call on the same loaded registry.
C21_LoadedAtIsLoadInstant ==
    \A n \in 1..Len(listings) :
        \A i \in 1..Len(listings[n]) : listings[n][i].loaded_at = LoadInstant

(***************************************************************************)
(* Claims about what the errors of render_prompt carry                     *)
(***************************************************************************)
\* The names the exception of a failed call carries: those its message holds.
Payload(call) == call.result.error.names

\* C22: the not-found error of render_prompt carries every prompt id the
\* registry knows.
C22_NotFoundCarriesKnownIds ==
    \A i \in 1..Len(renders) :
        renders[i].result.error.type = "KeyError"
        => \A k \in 1..Len(renders[i].registry_keys) :
                renders[i].registry_keys[k] \in Payload(renders[i])

\* C23: the missing-input error of render_prompt carries the missing names,
\* every required input of the definition and every key the caller provided.
C23_MissingInputCarriesAllThree ==
    \A i \in 1..Len(renders) :
        renders[i].result.error.type = "ValueError"
        => LET template == ValueOf(registry.dict, renders[i].prompt_id)
               provided == {renders[i].variables[k][1] : k \in 1..Len(renders[i].variables)}
           IN  /\ RequiredNames(template) \ provided \subseteq Payload(renders[i])
               /\ RequiredNames(template) \subseteq Payload(renders[i])
               /\ provided \subseteq Payload(renders[i])

(***************************************************************************)
(* Claims about the RenderedPrompt and the order of the checks             *)
(***************************************************************************)
\* Whether a value is a SHA-256 digest: the hexdigest of some bytes, which is
\* never the empty string.
IsDigest(h) == DOMAIN h = {"sha256"}

\* C24: every render_prompt call on a loaded registry that returned a
\* RenderedPrompt returned the requested id, the template_hash computed for
\* that definition when its file was loaded, and the llm_config of the
\* definition; and its three hashes are digests.
C24_RenderedPromptCarriesDefinition ==
    \A i \in 1..Len(renders) :
        renders[i].result.ok =>
            LET value == renders[i].result.value
                file == disk.files[renders[i].prompt_id]
            IN  /\ value.id = renders[i].prompt_id
                /\ value.template_hash = Sha256(Strip(ReplaceCRLF(file.system \o file.user)))
                /\ value.template_hash = ValueOf(registry.dict, renders[i].prompt_id).template_hash
                /\ value.llm_config = file.model_defaults
                /\ IsDigest(value.template_hash)
                /\ IsDigest(value.variables_hash)
                /\ IsDigest(value.rendered_hash)

\* C24 witness: the shipped definition was rendered with "logs" only and the
\* RenderedPrompt holds the default of "namespace" in its user message.
C24_Witness ==
    \E i \in 1..Len(renders) :
        /\ renders[i].result.ok
        /\ renders[i].prompt_id = "k8s_log_analysis_v1"
        /\ Len(renders[i].variables) = 1
        /\ renders[i].result.value.id = "k8s_log_analysis_v1"
        /\ renders[i].result.value.messages[2].content = renders[i].variables[1][2] \o <<" ">> \o ValUnknown

\* The variables a body prints that are defined neither by the merged
\* variables of a call nor by Jinja itself.
UndefinedIn(body, call) ==
    Referenced(body) \ (DOMAIN MergedOfCall(call) \cup JinjaGlobals)

\* C30: render_prompt reports the first failure only, in a fixed order: an
\* unknown id gives the not-found error; else a missing required input gives
\* the missing-input error whatever the bodies print; else an undefined
\* variable of the system body gives the error raised, whatever the user body
\* prints; else an undefined variable of the user body does.
C30_ChecksInFixedOrder ==
    \A i \in 1..Len(renders) :
        LET call == renders[i]
            error == call.result.error
            known == \E k \in 1..Len(call.registry_keys) : call.registry_keys[k] = call.prompt_id
            template == ValueOf(registry.dict, call.prompt_id)
            provided == {call.variables[k][1] : k \in 1..Len(call.variables)}
        IN  IF ~known THEN error.type = "KeyError"
            ELSE IF RequiredNames(template) \ provided # {}
            THEN error.type = "ValueError" /\ error.names = RequiredNames(template) \ provided
            ELSE IF UndefinedIn(template.system_template, call) # {}
            THEN /\ error.type = "UndefinedError"
                 /\ error.names \subseteq UndefinedIn(template.system_template, call)
            ELSE IF UndefinedIn(template.user_template, call) # {}
            THEN /\ error.type = "UndefinedError"
                 /\ error.names \subseteq UndefinedIn(template.user_template, call)
            ELSE call.result.ok

(***************************************************************************)
(* Span filter: what the filter keeps and what it drops                    *)
(***************************************************************************)
\* C25: the filter never mutates what it inspects and keeps no state: on_start,
\* on_end, shutdown and force_flush leave the name and the other data of
\* every span and the reference to the next processor unchanged, and the
\* outcome of on_end for a span is the outcome every earlier on_end had for a
\* span of the same name, whatever calls were made in between.
C25_FilterKeepsNoState ==
    [][ /\ filterNext' = filterNext
        /\ \A s \in SpanIds :
              spans[s].status # "unborn" =>
                  /\ spans'[s].name = spans[s].name
                  /\ spans'[s].ctx = spans[s].ctx
        /\ \A s, r \in SpanIds :
              ( /\ filterOnEnd[s] = "none"
                /\ filterOnEnd'[s] # "none"
                /\ filterOnEnd[r] # "none"
                /\ spans[r].name = spans[s].name )
              => /\ filterOnEnd'[s] = filterOnEnd[r]
                 /\ Len(nextOnEnd'[s]) = Len(nextOnEnd[r]) ]_vars

\* C25 witness: two spans of the same mixed-case noise name ended, a shutdown
\* and a force_flush were made, both spans were dropped and still carry the
\* name they were started with.
C25_Witness ==
    /\ \A s \in SpanIds :
          /\ spans[s].status = "ended"
          /\ spans[s].name =
               PyStr(<<"G","E","T"," ","/","s"," ","H","T","T","P"," ","S","e","n","d">>)
          /\ filterOnEnd[s] = "dropped"
    /\ Len(lifecycle.shutdown) = 1
    /\ Len(lifecycle.flush) = 1
    /\ filterNext = BatchProcessor

\* The span of a health-check request: the server span the FastAPI
\* instrumentation names after the method and the route, "GET /health".
IsHealthCheckName(name) ==
    /\ name.type = "str"
    /\ Contains(Lower(name.chars), <<"/","h","e","a","l","t","h">>)

\* C26: the filter also filters out health check spans: the next processor's
\* on_end is not invoked for an ended span of a health-check request.
C26_HealthCheckSpansDropped ==
    \A s \in SpanIds :
        (spans[s].status = "ended" /\ IsHealthCheckName(spans[s].name))
            => nextOnEnd[s] = <<>>


\* C30 witness: a definition whose two bodies print different undefined
\* variables was rendered with its required input, and the error raised names
\* the variable of the system body.
C30_Witness ==
    \E i \in 1..Len(renders) :
        LET template == ValueOf(registry.dict, renders[i].prompt_id)
        IN  /\ renders[i].prompt_id \in RegistryIds
            /\ RequiredNames(template) # {}
            /\ UndefinedIn(template.system_template, renders[i]) # {}
            /\ UndefinedIn(template.user_template, renders[i]) # {}
            /\ UndefinedIn(template.system_template, renders[i])
               \cap UndefinedIn(template.user_template, renders[i]) = {}
            /\ renders[i].result.error.type = "UndefinedError"
            /\ renders[i].result.error.names \subseteq UndefinedIn(template.system_template, renders[i])

(***************************************************************************)
(* Span filter: interleaved calls                                          *)
(***************************************************************************)
\* Whether the filter is to hand span s on: it has a name and the name is no
\* noise name.
KeptSpan(s) == spans[s].name.type = "str" /\ ~IsNoiseName(spans[s].name)

\* C29: under any interleaving of on_start and on_end calls for different
\* spans, the next processor never receives on_end for a span it received no
\* earlier on_start for, and the sequence of on_end calls it receives is the
\* sequence given to the filter with the noise-named spans removed: none
\* added, none duplicated, the relative order kept. Stated for spans that
\* have a name; on_end of a span without one raises, which is C4's case.
C29_OnEndOrderPreserved ==
    /\ \A i \in 1..Len(callOrder.ended) :
          \E j \in 1..Len(callOrder.started) : callOrder.started[j] = callOrder.ended[i]
    /\ callOrder.ended = SelectSeq(callOrder.given, KeptSpan)

\* C29 witness: two kept spans whose calls interleaved (the span started
\* second ended first) reached the next processor in the order they ended.
C29_Witness ==
    \E s, r \in SpanIds :
        /\ s # r
        /\ KeptSpan(s) /\ KeptSpan(r)
        /\ callOrder.started = <<s, r>>
        /\ callOrder.given = <<r, s>>
        /\ callOrder.ended = <<r, s>>

(***************************************************************************)
(* Claims about the streaming endpoint                                     *)
(***************************************************************************)
\* C27: when the log source returns no logs, POST /v1/analyze/stream responds
\* with status 404 and a JSON body whose error field is "No logs found", the
\* status POST /v1/analyze gives for the same answer of the log source.
C27_NoLogsStreamAnswers404 ==
    \A i \in 1..Len(service.stream) :
        service.stream[i].loki \in {"no streams", "streams without lines"}
        => /\ service.stream[i].status = 404
           /\ service.stream[i].status = AnalyzeStatus(service.stream[i].loki, "completion")
           /\ service.stream[i].chunks = <<<<"{\"error\": \"No logs found\"}", "\n">>>>

\* The lines the backend sent before its first [DONE].
BeforeDone(lines) ==
    LET done == {i \in 1..Len(lines) : lines[i].kind = "done"}
    IN  IF done = {} THEN lines
        ELSE SubSeq(lines, 1, (CHOOSE i \in done : \A j \in done : i <= j) - 1)

\* The content deltas among some lines, in their order, each as a chunk.
HasContent(line) == line.kind = "delta" /\ line.content # ""
ContentDeltas(lines) ==
    LET with == SelectSeq(lines, HasContent)
    IN  [i \in 1..Len(with) |-> <<with[i].content>>]

\* The last line of a chunk that is not blank.
LastText(chunk) ==
    LET text == {i \in 1..Len(chunk) : chunk[i] \notin {"", "\n"}}
    IN  chunk[CHOOSE i \in text : \A j \in text : j <= i]

\* Whether a chunk ends with the termination marker and a newline.
EndsWithEndMarker(chunk) ==
    /\ Len(chunk) >= 2
    /\ SubSeq(chunk, Len(chunk) - 1, Len(chunk)) = <<"=== End of Analysis ===", "\n">>

\* C28: on a POST /v1/analyze/stream that found logs, at every moment of the
\* stream the first chunk is the header, which ends with the section marker
\* "--- Analysis ---"; the chunks after it are the content deltas the backend
\* sent before its [DONE], in the backend's order; and once the stream has
\* completed, one more chunk follows, the last one, which ends with
\* "=== End of Analysis ===\n". No other chunk carries that marker.
C28_StreamChunksOrdered ==
    \A i \in 1..Len(service.stream) :
        LET st == service.stream[i]
            deltas == ContentDeltas(BeforeDone(st.backend))
            n == Len(st.chunks)
        IN  st.loki = "lines" =>
              /\ n >= 1
              /\ LastText(st.chunks[1]) = "--- Analysis ---"
              /\ st.pc # "done" => SubSeq(st.chunks, 2, n) = deltas
              /\ st.pc = "done" =>
                    /\ n >= 2
                    /\ SubSeq(st.chunks, 2, n - 1) = deltas
                    /\ EndsWithEndMarker(st.chunks[n])
              /\ \A k \in 1..n :
                    (\E j \in 1..Len(st.chunks[k]) : st.chunks[k][j] = "=== End of Analysis ===")
                    => (k = n /\ st.pc = "done")

\* C28 witness: the backend sent two content deltas and [DONE]; the stream
\* completed with four chunks: header, "A", "B", end marker.
C28_Witness ==
    /\ Len(service.stream) = 1
    /\ service.stream[1].pc = "done"
    /\ service.stream[1].backend = <<[kind |-> "delta", content |-> "A"],
                                     [kind |-> "delta", content |-> "B"],
                                     [kind |-> "done", content |-> ""]>>
    /\ Len(service.stream[1].chunks) = 4
    /\ service.stream[1].chunks[2] = <<"A">>
    /\ service.stream[1].chunks[3] = <<"B">>
    /\ EndsWithEndMarker(service.stream[1].chunks[4])

FilterSpec == FilterInit /\ [][FilterNext]_vars
====
